---------------------------- MODULE Spec2Model ----------------------------
(***************************************************************************)
(* The guesser of the Decrypto notebook: beliefs about keyword slots as    *)
(* log-probability vectors, the log-domain expectation of a heuristic, the *)
(* score of every code and the arg-max guess, and the reduction of the     *)
(* beliefs to a cumulative probability.                                    *)
(*                                                                         *)
(* Numbers.  A float of the notebook is one of                             *)
(*   - log(n/d) + z * LOG_PROB_ZERO, written Fin(n, d, z), n/d in lowest   *)
(*     terms: the logarithm of the probability (n/d) * exp(-100)^z;        *)
(*   - NegInf, the value of np.log(0);                                     *)
(*   - NaN, the value of (-inf) - (-inf).                                  *)
(* Adding logarithms multiplies the fractions and adds the z's.  np.exp    *)
(* takes Fin(n,d,z) to the probability (n/d)*exp(-100)^z and NegInf to 0;  *)
(* a float sum of probabilities keeps only the terms of the least z,       *)
(* because exp(-100) ~ 3.7e-44 is far below the 2^-53 relative precision   *)
(* of a float64 (1.0 + 3.7e-44 = 1.0).  The fractions are exact: the       *)
(* rounding of the last bit of np.exp and np.log is not modelled.          *)
(***************************************************************************)
EXTENDS Integers, Sequences, FiniteSets, TLC

\* ALL_WORDS = ("BOAT", "CAT", "RUM", "DRAG"): the words are their indices 0..3
NumWords == 4
\* keyword_card holds four keywords
NumSlots == 4
\* ALL_CODES = permutations(range(4), 3): a code has three digits
CodeLen == 3
\* LOG_PROB_ZERO = np.float64(-100.0)
LOG_PROB_ZERO == -100
\* probabilities of the input beliefs are multiples of 1/Resolution
Resolution == 2

ALL_WORDS == 0 .. (NumWords - 1)

---------------------------------------------------------------------------
(* floats *)

RECURSIVE Gcd(_, _)
Gcd(a, b) == IF b = 0 THEN a ELSE Gcd(b, a % b)

Lowest(n, d, z, g) == [k |-> "fin", n |-> n \div g, d |-> d \div g, z |-> z]
Fin(n, d, z) == Lowest(n, d, z, Gcd(n, d))
NegInf == [k |-> "ninf", n |-> 0, d |-> 1, z |-> 0]
NaN == [k |-> "nan", n |-> 0, d |-> 1, z |-> 0]
\* np.NZERO, the float -0.0 = log 1
NZERO == Fin(1, 1, 0)
\* the float LOG_PROB_ZERO
LogProbZero == Fin(1, 1, 1)

\* the float that np.log returns for the rational n/d
Log(n, d) == IF n = 0 THEN NegInf ELSE Fin(n, d, 0)

\* a + b on floats (no operand is +inf)
Add(a, b) ==
    IF a.k = "nan" \/ b.k = "nan" THEN NaN
    ELSE IF a.k = "ninf" \/ b.k = "ninf" THEN NegInf
    ELSE Fin(a.n * b.n, a.d * b.d, a.z + b.z)

\* a - b on floats, for b >= a (b is the maximum of the terms)
Sub(a, b) ==
    IF a.k = "nan" \/ b.k = "nan" THEN NaN
    ELSE IF b.k = "ninf" THEN NaN
    ELSE IF a.k = "ninf" THEN NegInf
    ELSE Fin(a.n * b.d, a.d * b.n, a.z - b.z)

\* a < b on floats (False when either is NaN)
Less(a, b) ==
    IF a.k = "nan" \/ b.k = "nan" THEN FALSE
    ELSE IF b.k = "ninf" THEN FALSE
    ELSE IF a.k = "ninf" THEN TRUE
    ELSE \/ a.z > b.z
         \/ a.z = b.z /\ a.n * b.d < b.n * a.d

\* a >= b on floats (False when either is NaN)
GreaterEq(a, b) == a.k # "nan" /\ b.k # "nan" /\ ~Less(a, b)

\* np.max over the last axis: NaN if any term is NaN
RECURSIVE MaxFrom(_, _, _)
MaxFrom(terms, i, best) ==
    IF i > Len(terms) THEN best
    ELSE IF best.k = "nan" \/ terms[i].k = "nan" THEN NaN
    ELSE IF Less(best, terms[i]) THEN MaxFrom(terms, i + 1, terms[i])
    ELSE MaxFrom(terms, i + 1, best)

Max(terms) == MaxFrom(terms, 2, terms[1])

\* a probability (n/d) * exp(-100)^z, or the NaN that np.exp(NaN) is
Prob(n, d, z) == [k |-> "num", n |-> n, d |-> d, z |-> z]
ProbNaN == [k |-> "nan", n |-> 0, d |-> 1, z |-> 0]

\* np.exp of a float
Exp(a) ==
    IF a.k = "nan" THEN ProbNaN
    ELSE IF a.k = "ninf" THEN Prob(0, 1, 0)
    ELSE Prob(a.n, a.d, a.z)

\* p + q on probabilities.  The one of the lesser z carries the float sum: a
\* term exp(-100) times smaller is absorbed
Plus(p, q) ==
    IF p.k = "nan" \/ q.k = "nan" THEN ProbNaN
    ELSE IF q.n = 0 THEN p
    ELSE IF p.n = 0 THEN q
    ELSE IF p.z < q.z THEN p
    ELSE IF q.z < p.z THEN q
    ELSE Prob(p.n * q.d + q.n * p.d, p.d * q.d, p.z)

\* np.sum over the last axis
RECURSIVE SumFrom(_, _, _)
SumFrom(ps, i, acc) ==
    IF i > Len(ps) THEN acc ELSE SumFrom(ps, i + 1, Plus(acc, ps[i]))

Sum(ps) == SumFrom(ps, 1, Prob(0, 1, 0))

\* np.log of a probability
LogOf(p) == IF p.k = "nan" THEN NaN ELSE IF p.n = 0 THEN NegInf ELSE Fin(p.n, p.d, p.z)

---------------------------------------------------------------------------
(* vocabulary, codes, beliefs *)

\* the sequence seq without its i-th element
Without(seq, i) == [j \in 1 .. (Len(seq) - 1) |-> IF j < i THEN seq[j] ELSE seq[j + 1]]

\* itertools.permutations(pool, r) as a list, in the order it yields them
RECURSIVE permutations(_, _)
RECURSIVE PermsAt(_, _, _)
PermsAt(pool, r, i) ==
    IF i > Len(pool) THEN <<>>
    ELSE LET rest == permutations(Without(pool, i), r - 1)
         IN [j \in 1 .. Len(rest) |-> <<pool[i]>> \o rest[j]] \o PermsAt(pool, r, i + 1)
permutations(pool, r) ==
    IF r = 0 THEN << <<>> >> ELSE PermsAt(pool, r, 1)

range(n) == [i \in 1 .. n |-> i - 1]

\* the codes from the last to the first
descending_codes(n, r) ==
    LET cs == permutations(range(n), r)
    IN [k \in 1 .. Len(cs) |-> cs[Len(cs) + 1 - k]]

\* ALL_CODES for n keyword slots and codes of r digits
AllCodes(n, r) == permutations(range(n), r)

\* a numpy array: its number of axes and its elements, nested ndim deep
Array(ndim, a) == [ndim |-> ndim, a |-> a]

\* NumpyRandomVariable: two arrays
RandomVariable(lp, ki) == [log_probabilities |-> lp, keyword_indices |-> ki]

\* probability 1 on the keyword and LOG_PROB_ZERO, not np.log(0), on every
\* other word
sentinel_random_variable(keyword) ==
    RandomVariable(
        Array(1, [w \in 1 .. NumWords |-> IF w - 1 = keyword THEN NZERO ELSE LogProbZero]),
        Array(1, range(NumWords)))

\* cell 1: probability 1 on the keyword, np.log(0) on every other word
guesser_random_variable(keyword) ==
    RandomVariable(
        Array(1, [w \in 1 .. NumWords |-> IF w - 1 = keyword THEN NZERO ELSE NegInf]),
        Array(1, range(NumWords)))

\* cell 4: one entry, the keyword, with log-probability 0
guesser_random_variables(card) ==
    [r \in 1 .. Len(card) |-> RandomVariable(Array(1, <<NZERO>>), Array(1, <<card[r]>>))]


\* a belief that keeps one entry of a belief that was not certain, with its
\* log-probability and no renormalisation: the keyword, with probability
\* a/Resolution
partial_random_variables(card, a) ==
    [r \in 1 .. Len(card) |->
        RandomVariable(Array(1, <<Log(a, Resolution)>>), Array(1, <<card[r]>>))]

\* a belief over the whole vocabulary that is not certain: probability
\* (Resolution - a)/Resolution on the keyword, a/Resolution on another word,
\* np.log(0) on the rest
split_random_variable(keyword, other, a) ==
    RandomVariable(
        Array(1, [w \in 1 .. NumWords |->
                     IF w - 1 = keyword THEN Log(Resolution - a, Resolution)
                     ELSE IF w - 1 = other THEN Log(a, Resolution)
                     ELSE NegInf]),
        Array(1, range(NumWords)))

---------------------------------------------------------------------------
(* heuristics *)

\* the naive heuristic with its two values exchanged
exchanged_clue_and_keyword_log_prob(clue_index, keyword_index) ==
    IF keyword_index = clue_index THEN LogProbZero ELSE NZERO

\* naive_clue_and_keyword_log_prob: np.NZERO where the keyword is the clue,
\* LOG_PROB_ZERO elsewhere
naive_clue_and_keyword_log_prob(clue_index, keyword_index) ==
    IF keyword_index = clue_index THEN NZERO ELSE LogProbZero

\* a graded heuristic: log 1 on the keyword, log 1/2 on its neighbours in the
\* vocabulary, LOG_PROB_ZERO elsewhere
near_clue_and_keyword_log_prob(clue_index, keyword_index) ==
    IF keyword_index = clue_index THEN NZERO
    ELSE IF keyword_index - clue_index \in {-1, 1} THEN Log(1, 2)
    ELSE LogProbZero

\* the heuristics a caller may hand to log_expected_probabilities_codes
Heuristics == {"naive", "near"}

clue_and_keyword_to_log_probability_func(h, clue_index, keyword_index) ==
    CASE h = "naive" -> naive_clue_and_keyword_log_prob(clue_index, keyword_index)
      [] h = "near" -> near_clue_and_keyword_log_prob(clue_index, keyword_index)

---------------------------------------------------------------------------
(* the expectation and the scores of the codes (cell 3) *)

\* the expectation with the maximum not added back
OffsetExpectationOnly(log_terms, max_log_term) ==
    LogOf(Sum([w \in 1 .. Len(log_terms) |-> Exp(Sub(log_terms[w], max_log_term))]))

\* log_expected_probability from the terms and their maximum: the offset
\* terms, their expectation, and the maximum added back
OffsetExpectation(log_terms, max_log_term) ==
    Add(LogOf(Sum([w \in 1 .. Len(log_terms) |->
                      Exp(Sub(log_terms[w], max_log_term))])),
        max_log_term)

\* the expectation summed without the offset, in an arithmetic where the exp
\* of a term as small as the sentinel underflows to zero
underflowing_log_expectation(log_terms) ==
    LogOf(Sum([w \in 1 .. Len(log_terms) |->
                  IF log_terms[w].k = "fin" /\ log_terms[w].z > 0
                  THEN Prob(0, 1, 0) ELSE Exp(log_terms[w])]))

LogExpectation(log_terms) == OffsetExpectation(log_terms, Max(log_terms))

\* log_expected_probability for one belief and one clue: log E[f(X)]
log_expected_probability(h, clue_index, log_probabilities, keyword_indices) ==
    LogExpectation([w \in 1 .. Len(log_probabilities) |->
                       Add(log_probabilities[w],
                           clue_and_keyword_to_log_probability_func(
                               h, clue_index, keyword_indices[w]))])

\* the matrix log_expected_probabilities: a row per belief, a column per clue
ExpectationMatrix(h, rvs, clues) ==
    [r \in 1 .. Len(rvs) |-> [c \in 1 .. Len(clues) |->
        log_expected_probability(h, clues[c], rvs[r].log_probabilities.a,
                                 rvs[r].keyword_indices.a)]]

Min(a, b) == IF a < b THEN a ELSE b

\* the diagonal taken against the clue in reverse
RECURSIVE ReversedTrace(_, _, _)
ReversedTrace(M, code, i) ==
    IF i = 0 THEN NZERO
    ELSE Add(ReversedTrace(M, code, i - 1), M[code[i] + 1][Len(code) + 1 - i])

\* M[code].trace(): the sum of M[code[i], i] over the diagonal
RECURSIVE Trace(_, _, _)
Trace(M, code, i) ==
    IF i = 0 THEN NZERO ELSE Add(Trace(M, code, i - 1), M[code[i] + 1][i])

\* the scores with an empty list of codes taken as an index like any other
UncheckedCodeScores(M, cs, ncols) ==
    [error |-> "none",
     value |-> [k \in 1 .. Len(cs) |-> Trace(M, cs[k], Min(Len(cs[k]), ncols))]]

\* log_expected_probabilities[codes].trace(axis1=1, axis2=2).  An empty list
\* of codes is a float64 array of shape (0,), which numpy refuses as an index
CodeScores(M, cs, ncols) ==
    IF cs = <<>> THEN [error |-> "IndexError", value |-> <<>>]
    ELSE [error |-> "none",
          value |-> [k \in 1 .. Len(cs) |-> Trace(M, cs[k], Min(Len(cs[k]), ncols))]]

\* np.argmax: the first index of the maximum (a NaN counts as the maximum)
RECURSIVE ArgMaxFrom(_, _, _)
ArgMaxFrom(v, best, i) ==
    IF i > Len(v) THEN best
    ELSE IF v[best].k # "nan" /\ (v[i].k = "nan" \/ Less(v[best], v[i]))
         THEN ArgMaxFrom(v, i, i + 1)
         ELSE ArgMaxFrom(v, best, i + 1)

\* the last index of the maximum
RECURSIVE ArgMaxLastFrom(_, _, _)
ArgMaxLastFrom(v, best, i) ==
    IF i > Len(v) THEN best
    ELSE IF Less(v[i], v[best]) THEN ArgMaxLastFrom(v, best, i + 1)
    ELSE ArgMaxLastFrom(v, i, i + 1)

argmax_last(v) == ArgMaxLastFrom(v, 1, 2)

argmax(v) == ArgMaxFrom(v, 1, 2)

---------------------------------------------------------------------------
(* the reduction of the beliefs to a cumulative probability (cell 3) *)

\* the permutations of 0 .. n-1, as sequences
PositionOrders(n) ==
    {o \in [1 .. n -> 0 .. (n - 1)] : \A i, j \in 1 .. n : i # j => o[i] # o[j]}

\* (-row).argsort(): the positions of row by decreasing value.  The default
\* sort is not stable: equal values come in an order the build chooses
ArgSorts(row) ==
    {o \in PositionOrders(Len(row)) :
        \A j \in 1 .. (Len(row) - 1) : ~Less(row[o[j] + 1], row[o[j + 1] + 1])}

\* cumsum(axis=-1) of a row of log-probabilities
RECURSIVE cumsum(_)
cumsum(row) ==
    IF Len(row) <= 1 THEN row
    ELSE LET init == cumsum(SubSeq(row, 1, Len(row) - 1))
         IN Append(init, Add(init[Len(init)], row[Len(row)]))

\* np.argmax of a row of booleans: the first True, 0 when there is none
RECURSIVE FirstTrue(_, _)
FirstTrue(flags, i) ==
    IF i > Len(flags) THEN 0
    ELSE IF flags[i] THEN i - 1 ELSE FirstTrue(flags, i + 1)

\* num_indices_for_cumulative_probability for one row: the values of the row
\* by decreasing probability are the same for every order of the equal ones
num_indices_for_cumulative_probability(row, order, log_p) ==
    LET by_decreasing == [j \in 1 .. Len(row) |-> row[order[j] + 1]]
        sums == cumsum(by_decreasing)
        earliest_index == FirstTrue([j \in 1 .. Len(row) |-> GreaterEq(sums[j], log_p)], 1)
    IN earliest_index + 1

RECURSIVE MaxNat(_)
MaxNat(ns) == IF Len(ns) = 1 THEN ns[1] ELSE
    LET m == MaxNat(Tail(ns)) IN IF ns[1] > m THEN ns[1] ELSE m

\* the sequences that take their r-th element from sets[r]
RECURSIVE Product(_)
Product(sets) ==
    IF sets = <<>> THEN {<<>>}
    ELSE {<<x>> \o rest : x \in sets[1], rest \in Product(Tail(sets))}

\* keyword_indices_by_decreasing_probability[:, slice(np.max(num_indices))]:
\* every value it can take
ReducedKeywordIndices(var_log_probabilities, log_p) ==
    LET R == Len(var_log_probabilities)
        num_indices == [r \in 1 .. R |->
            num_indices_for_cumulative_probability(
                var_log_probabilities[r],
                CHOOSE o \in ArgSorts(var_log_probabilities[r]) : TRUE, log_p)]
        width == MaxNat(num_indices)
    IN Product([r \in 1 .. R |->
           {SubSeq(o, 1, width) : o \in ArgSorts(var_log_probabilities[r])}])

\* random_vars_at_least_cumulative_probability, given the reduced keyword
\* indices.  var_log_probabilities[reduced_keyword_indices] indexes the rows
\* of var_log_probabilities, the beliefs, with keyword positions: entry j of
\* belief r becomes the whole row of belief number reduced_keyword_indices[r][j],
\* and numpy raises IndexError when there is no such belief
random_vars_at_least_cumulative_probability(rvs, reduced_keyword_indices) ==
    LET R == Len(rvs)
    IN IF \E r \in 1 .. R : \E j \in 1 .. Len(reduced_keyword_indices[r]) :
              reduced_keyword_indices[r][j] >= R
       THEN [error |-> "IndexError", value |-> <<>>]
       ELSE [error |-> "none",
             value |-> [r \in 1 .. R |->
                 RandomVariable(
                     Array(2, [j \in 1 .. Len(reduced_keyword_indices[r]) |->
                                  rvs[reduced_keyword_indices[r][j] + 1].log_probabilities.a]),
                     Array(1, reduced_keyword_indices[r]))]]

\* random_vars_at_least_cumulative_probability on beliefs that it returned
\* itself, whose log_probabilities are arrays of k rows of W values.
\* var_log_probabilities has the shape (R, k, W) and so has the argsort; line
\* 183 indexes the first two axes of var_log_probabilities with arange(R),
\* of shape (R, 1), and the argsort: numpy raises IndexError when the two do
\* not broadcast, and when a position W - 1 of the argsort is not below k.
\* With k = W = 1 every position is 0, num_indices is 1, and the belief that
\* comes back holds [[0]] and the array [var_log_probabilities[0]]
reduce_reduced_random_vars(rvs) ==
    LET R == Len(rvs)
        k == Len(rvs[1].log_probabilities.a)
        W == Len(rvs[1].log_probabilities.a[1])
    IN CASE R # k /\ R # 1 /\ k # 1 -> [error |-> "IndexError", value |-> <<>>]
         [] (R = k \/ R = 1 \/ k = 1) /\ W > k -> [error |-> "IndexError", value |-> <<>>]
         [] k = 1 /\ W = 1 ->
               [error |-> "none",
                value |-> [r \in 1 .. R |->
                    RandomVariable(Array(4, << <<rvs[1].log_probabilities.a>> >>),
                                   Array(2, << <<0>> >>))]]

---------------------------------------------------------------------------
(* the notebook as a state machine *)

VARIABLES
    pc,                         \* the cell the notebook has reached
    keyword_card,               \* the keywords of the slots, as word indices
    random_variables,           \* the beliefs, one per keyword slot
    clue_indices,               \* the clue, as word indices
    heuristic,                  \* the heuristic handed to the scorer
    codes,                      \* ALL_CODES
    log_expected_probabilities, \* the matrix of the scorer
    log_expectations,           \* the score of every code
    guess,                      \* ALL_CODES[np.argmax(log_expectations)]
    cumulative_probability,     \* the threshold of the reduction, in 1/Resolution
    reduced_random_variables,   \* the beliefs the reduction returned
    second_probability,         \* the threshold of a second reduction
    twice_reduced_random_variables, \* the reduction of the reduced beliefs
    error                       \* the exception that ended the run, or "none"

scoring == <<clue_indices, heuristic, codes, log_expected_probabilities,
             log_expectations, guess>>
reducing == <<cumulative_probability, reduced_random_variables, second_probability,
              twice_reduced_random_variables>>

vars == <<pc, keyword_card, random_variables, scoring, reducing, error>>

\* the keyword cards: n distinct words
RECURSIVE Cards(_)
Cards(n) ==
    IF n = 0 THEN {<<>>}
    ELSE UNION {{Append(c, w) : w \in ALL_WORDS \ {c[i] : i \in 1 .. (n - 1)}} :
                c \in Cards(n - 1)}

Init ==
    /\ pc = "card"
    /\ keyword_card \in UNION {Cards(n) : n \in 1 .. NumSlots}
    /\ random_variables = <<>>
    /\ clue_indices = <<>>
    /\ heuristic = "none"
    /\ codes = <<>>
    /\ log_expected_probabilities = <<>>
    /\ log_expectations = <<>>
    /\ guess = <<>>
    /\ cumulative_probability = 0
    /\ reduced_random_variables = <<>>
    /\ second_probability = 0
    /\ twice_reduced_random_variables = <<>>
    /\ error = "none"

\* cell 1: random_variables = [guesser_random_variable(keyword) for keyword in keyword_card]
DenseBeliefs ==
    /\ pc = "card"
    /\ random_variables' = [r \in 1 .. Len(keyword_card) |->
                               guesser_random_variable(keyword_card[r])]
    /\ pc' = "beliefs"
    /\ UNCHANGED <<keyword_card, scoring, reducing, error>>

\* cell 4: random_variables = guesser_random_variables(keyword_card)
CertainBeliefs ==
    /\ pc = "card"
    /\ random_variables' = guesser_random_variables(keyword_card)
    /\ pc' = "beliefs"
    /\ UNCHANGED <<keyword_card, scoring, reducing, error>>

\* beliefs of a side that is not certain of the keywords
UncertainBeliefs ==
    /\ pc = "card"
    /\ \E a \in 1 .. (Resolution - 1) : \E shift \in 1 .. (NumWords - 2) :
          random_variables' = [r \in 1 .. Len(keyword_card) |->
              split_random_variable(keyword_card[r],
                                    (keyword_card[r] + shift) % NumWords, a)]
    /\ pc' = "beliefs"
    /\ UNCHANGED <<keyword_card, scoring, reducing, error>>

\* certain beliefs of which the last names an index past the vocabulary
OutOfVocabularyBeliefs ==
    /\ pc = "card"
    /\ random_variables' =
          guesser_random_variables(
              [keyword_card EXCEPT ![Len(keyword_card)] = NumWords])
    /\ pc' = "beliefs"
    /\ UNCHANGED <<keyword_card, scoring, reducing, error>>

\* beliefs that hold less than the whole probability: one entry each, the
\* keyword, with probability 1/Resolution
PartialBeliefs ==
    /\ pc = "card"
    /\ random_variables' = partial_random_variables(keyword_card, 1)
    /\ pc' = "beliefs"
    /\ UNCHANGED <<keyword_card, scoring, reducing, error>>

\* log_expectations = log_expected_probabilities_codes(h, random_variables, clue_indices, ALL_CODES)
Score ==
    /\ pc = "beliefs"
    /\ \E L \in 1 .. CodeLen : \E ALL_CODES \in {AllCodes(Len(random_variables), L)} :
       \E clue \in [1 .. L -> ALL_WORDS] : \E h \in Heuristics :
          /\ clue_indices' = clue
          /\ heuristic' = h
          /\ codes' = ALL_CODES
          /\ log_expected_probabilities' = ExpectationMatrix(h, random_variables, clue)
          /\ \E res \in {CodeScores(log_expected_probabilities', codes', L)} :
                /\ log_expectations' = res.value
                /\ error' = res.error
                /\ pc' = IF res.error = "none" THEN "scored" ELSE "failed"
    /\ UNCHANGED <<keyword_card, random_variables, guess, reducing>>

\* guess = ALL_CODES[np.argmax(log_expectations)]
Guess ==
    /\ pc = "scored"
    /\ IF log_expectations = <<>>
       THEN /\ error' = "ValueError"
            /\ pc' = "failed"
            /\ UNCHANGED guess
       ELSE /\ guess' = codes[argmax(log_expectations)]
            /\ pc' = "guessed"
            /\ UNCHANGED error
    /\ UNCHANGED <<keyword_card, random_variables, clue_indices, heuristic, codes,
                   log_expected_probabilities, log_expectations, reducing>>

\* reduced_random_variables = random_vars_at_least_cumulative_probability(random_variables, p)
Reduce ==
    /\ pc = "beliefs"
    /\ \E a \in 1 .. Resolution :
       \E rki \in ReducedKeywordIndices(
                      [r \in 1 .. Len(random_variables) |->
                          random_variables[r].log_probabilities.a],
                      Log(a, Resolution)) :
       \E res \in {random_vars_at_least_cumulative_probability(random_variables, rki)} :
          /\ cumulative_probability' = a
          /\ reduced_random_variables' = res.value
          /\ error' = res.error
          /\ pc' = IF res.error = "none" THEN "reduced" ELSE "failed"
    /\ UNCHANGED <<keyword_card, random_variables, scoring, second_probability,
                   twice_reduced_random_variables>>

\* random_vars_at_least_cumulative_probability(reduced_random_variables, p')
ReduceAgain ==
    /\ pc = "reduced"
    /\ \E b \in 1 .. Resolution :
       \E res \in {reduce_reduced_random_vars(reduced_random_variables)} :
          /\ second_probability' = b
          /\ twice_reduced_random_variables' = res.value
          /\ error' = res.error
          /\ pc' = IF res.error = "none" THEN "reduced_twice" ELSE "failed"
    /\ UNCHANGED <<keyword_card, random_variables, scoring, cumulative_probability,
                   reduced_random_variables>>

Next ==
    \/ DenseBeliefs
    \/ CertainBeliefs
    \/ UncertainBeliefs
    \/ OutOfVocabularyBeliefs
    \/ PartialBeliefs
    \/ Score
    \/ Guess
    \/ Reduce
    \/ ReduceAgain

Spec == Init /\ [][Next]_vars

---------------------------------------------------------------------------
(* properties *)

\* the beliefs are the certain beliefs of the keyword card
Certain == random_variables = guesser_random_variables(keyword_card)

\* the scorer has returned the scores
Scored == pc \in {"scored", "guessed"}

\* the clue that names the keywords of the slots of a code
NaiveClue(code) == [i \in 1 .. Len(code) |-> keyword_card[code[i] + 1]]

\* the notebook's example: the card (CAT, BOAT, RUM, DRAG), the clue of code (1, 3, 0)
Example ==
    /\ keyword_card = <<1, 0, 2, 3>>
    /\ clue_indices = <<0, 3, 1>>
    /\ heuristic = "naive"

\* the number that a float with log 1 for its fraction is: LOG_PROB_ZERO * z
Number(x) == LOG_PROB_ZERO * x.z

\* C1: with a certain belief for every slot and the naive heuristic, a clue
\* that names the keywords of the slots of a code c makes the guess c.
C1_RoundTrip ==
    (pc = "guessed" /\ Certain /\ heuristic = "naive") =>
        \A k \in 1 .. Len(codes) :
            clue_indices = NaiveClue(codes[k]) => guess = codes[k]

C1_Witness ==
    /\ pc = "guessed" /\ Certain /\ Example
    /\ clue_indices = NaiveClue(<<1, 3, 0>>)
    /\ guess = <<1, 3, 0>>

\* C2: the guess is the code at the least position whose score is the maximum
\* of the scores: no score is greater, and every earlier score is less.
C2_FirstMaximum ==
    pc = "guessed" =>
        \E k \in 1 .. Len(codes) :
            /\ guess = codes[k]
            /\ \A j \in 1 .. Len(codes) : ~Less(log_expectations[k], log_expectations[j])
            /\ \A j \in 1 .. (k - 1) : Less(log_expectations[j], log_expectations[k])

C2_Witness ==
    /\ pc = "guessed"
    /\ \E k, j \in 1 .. Len(codes) :
          /\ k < j
          /\ guess = codes[k]
          /\ log_expectations[j] = log_expectations[k]
          /\ \E i \in 1 .. (k - 1) : Less(log_expectations[i], log_expectations[k])

\* the sum of the entries of a sequence of floats, from the right
RECURSIVE SumOfLogs(_)
SumOfLogs(xs) == IF xs = <<>> THEN NZERO ELSE Add(xs[1], SumOfLogs(Tail(xs)))

\* C3: the scorer returns one score per code, in the order of the codes, and
\* the score of code k is the sum over the clue positions i of M[code[i], i],
\* M being the matrix of the log-expectations of the beliefs against the clue.
C3_ScoreIsDiagonalSum ==
    pc = "scored" =>
        /\ Len(log_expectations) = Len(codes)
        /\ codes = AllCodes(Len(random_variables), Len(clue_indices))
        /\ \A r \in 1 .. Len(random_variables) : \A c \in 1 .. Len(clue_indices) :
              log_expected_probabilities[r][c] =
                  log_expected_probability(heuristic, clue_indices[c],
                                           random_variables[r].log_probabilities.a,
                                           random_variables[r].keyword_indices.a)
        /\ \A k \in 1 .. Len(codes) :
              log_expectations[k] =
                  SumOfLogs([i \in 1 .. Len(clue_indices) |->
                                log_expected_probabilities[codes[k][i] + 1][i]])

C3_Witness ==
    /\ pc = "scored"
    /\ Len(codes) = 24
    /\ heuristic = "near"
    /\ ~Certain
    /\ \E k \in 1 .. Len(codes) : log_expectations[k].n # log_expectations[k].d
    /\ \E r \in 1 .. 4 : log_expected_probabilities[r][1] # log_expected_probabilities[r][2]

\* the clue positions at which the keyword of the slot of the code is not the clue
Mismatches(code) ==
    Cardinality({i \in 1 .. Len(code) : keyword_card[code[i] + 1] # clue_indices[i]})

\* C4: with certain beliefs and the naive heuristic the score of a code is
\* -100 times the number of clue positions whose keyword is not the clue; the
\* code the clue names scores 0 and every other code scores less.
C4_HundredPerMismatch ==
    (Scored /\ Certain /\ heuristic = "naive") =>
        /\ \A k \in 1 .. Len(codes) :
              /\ log_expectations[k].k = "fin"
              /\ log_expectations[k].n = log_expectations[k].d
              /\ Number(log_expectations[k]) = LOG_PROB_ZERO * Mismatches(codes[k])
        /\ \A k \in 1 .. Len(codes) :
              clue_indices = NaiveClue(codes[k]) =>
                  /\ log_expectations[k] = NZERO
                  /\ \A j \in 1 .. Len(codes) :
                        j # k => Less(log_expectations[j], log_expectations[k])

\* the notebook's example and the scores it prints
C4_Witness ==
    /\ pc = "guessed" /\ Certain /\ Example
    /\ guess = <<1, 3, 0>>
    /\ Len(log_expectations) = 24
    /\ [k \in 1 .. 24 |-> Number(log_expectations[k])] =
          <<-300, -300, -300, -300, -200, -200, -200, -200, -100, -200, 0, -100,
            -300, -300, -200, -300, -100, -200, -300, -300, -200, -300, -200, -300>>
    /\ \A k \in 1 .. 24 : log_expectations[k].n = log_expectations[k].d

\* the beliefs name words of the vocabulary only
InVocabulary ==
    \A r \in 1 .. Len(random_variables) :
        \A w \in 1 .. Len(random_variables[r].keyword_indices.a) :
            random_variables[r].keyword_indices.a[w] \in ALL_WORDS

\* the probabilities of every belief sum to 1
Normalised ==
    \A r \in 1 .. Len(random_variables) :
        LogOf(Sum([w \in 1 .. Len(random_variables[r].log_probabilities.a) |->
                      Exp(random_variables[r].log_probabilities.a[w])])) = NZERO

\* the probability that belief r gave to the entries the reduction kept: the
\* sum of exp of its log-probabilities at the retained positions
RetainedMass(r) ==
    Sum([j \in 1 .. Len(reduced_random_variables[r].keyword_indices.a) |->
            Exp(random_variables[r].log_probabilities.a[
                    reduced_random_variables[r].keyword_indices.a[j] + 1])])

\* C5: the belief that the reduction to a cumulative probability p returns
\* has a probability mass of at least p.
C5_MassAtLeastThreshold ==
    (pc = "reduced" /\ InVocabulary /\ Normalised) =>
        \A r \in 1 .. Len(reduced_random_variables) :
            RetainedMass(r).n * Resolution >= cumulative_probability * RetainedMass(r).d

\* two beliefs are equal: the same arrays, of the same shape
SameArray(x, y) == x.ndim = y.ndim /\ x.a = y.a
SameBelief(b, c) ==
    /\ SameArray(b.keyword_indices, c.keyword_indices)
    /\ SameArray(b.log_probabilities, c.log_probabilities)

\* C6: reducing a reduced belief again, to the same cumulative probability
\* or to a lesser one, returns a belief equal to it.
C6_Idempotent ==
    (second_probability # 0 /\ second_probability <= cumulative_probability) =>
        /\ error = "none"
        /\ Len(twice_reduced_random_variables) = Len(reduced_random_variables)
        /\ \A r \in 1 .. Len(reduced_random_variables) :
              SameBelief(twice_reduced_random_variables[r], reduced_random_variables[r])

\* C7: the reduction to the cumulative probability 1.0 keeps every entry of
\* the belief that has a probability above zero.
C7_NoCompressionAtOne ==
    (pc = "reduced" /\ cumulative_probability = Resolution /\ InVocabulary /\ Normalised) =>
        \A r \in 1 .. Len(random_variables) :
            \A w \in 1 .. Len(random_variables[r].keyword_indices.a) :
                random_variables[r].log_probabilities.a[w] # NegInf =>
                    \E j \in 1 .. Len(reduced_random_variables[r].keyword_indices.a) :
                        reduced_random_variables[r].keyword_indices.a[j] =
                            random_variables[r].keyword_indices.a[w]

\* the row of the expectation matrix for belief rv
Row(rv) ==
    [c \in 1 .. Len(clue_indices) |->
        log_expected_probability(heuristic, clue_indices[c],
                                 rv.log_probabilities.a, rv.keyword_indices.a)]

\* C8, as amended: the row of the expectation matrix of the certain belief in
\* a word is the row of the belief over the whole vocabulary that has
\* log-probability 0 at the word and np.log(0) = -inf at every other word.
C8_CertainRowIsDenseRow ==
    (pc \in {"scored", "failed"} /\ heuristic # "none" /\ Certain) =>
        \A r \in 1 .. Len(keyword_card) :
            log_expected_probabilities[r] = Row(guesser_random_variable(keyword_card[r]))

C8_Witness ==
    /\ pc = "scored" /\ Certain
    /\ heuristic = "near"
    /\ Len(keyword_card) = 4
    /\ Len(clue_indices) = 3
    /\ \E r \in 1 .. 4 : \E c \in 1 .. 3 : log_expected_probabilities[r][c] = Log(1, 2)
    /\ \E r \in 1 .. 4 : \E c \in 1 .. 3 : log_expected_probabilities[r][c] = LogProbZero
    /\ \A r \in 1 .. 4 :
          log_expected_probabilities[r] = Row(guesser_random_variable(keyword_card[r]))

\* C8, as stated: the same with the log-zero sentinel LOG_PROB_ZERO at every
\* other word.
C8_CertainRowIsSentinelRow ==
    (pc \in {"scored", "failed"} /\ heuristic # "none" /\ Certain) =>
        \A r \in 1 .. Len(keyword_card) :
            log_expected_probabilities[r] = Row(sentinel_random_variable(keyword_card[r]))

\* C9: when a belief names an index that is not below the size of the
\* vocabulary, the scorer fails with DimensionMismatchError and returns no
\* scores and no guess.
C9_OutOfVocabularyFails ==
    (heuristic # "none" /\ ~InVocabulary) =>
        /\ error = "DimensionMismatchError"
        /\ log_expectations = <<>>
        /\ guess = <<>>

RECURSIVE FallingFactorial(_, _)
FallingFactorial(n, l) == IF l = 0 THEN 1 ELSE n * FallingFactorial(n - 1, l - 1)

\* a comes before b in the lexicographic order
LexLess(a, b) ==
    \E i \in 1 .. Len(a) :
        /\ \A j \in 1 .. (i - 1) : a[j] = b[j]
        /\ a[i] < b[i]

\* the tuples of l pairwise distinct elements of 0 .. n-1
DistinctTuples(n, l) ==
    {t \in [1 .. l -> 0 .. (n - 1)] : \A i, j \in 1 .. l : i # j => t[i] # t[j]}

\* C11: the codes for N slots and L clue words are the tuples of L pairwise
\* distinct elements of 0 .. N-1, each exactly once (N!/(N-L)! codes), in
\* strictly increasing lexicographic order; there is one such sequence, so
\* every call for the same N and L gives the same codes.
C11_CodesLexicographic ==
    (pc \in {"scored", "failed"} /\ heuristic # "none") =>
        LET N == Len(random_variables)
            L == Len(clue_indices)
        IN /\ \A k \in 1 .. Len(codes) : codes[k] \in DistinctTuples(N, L)
           /\ \A k \in 1 .. (Len(codes) - 1) : LexLess(codes[k], codes[k + 1])
           /\ Len(codes) = FallingFactorial(N, L)
           /\ \A t \in DistinctTuples(N, L) : \E k \in 1 .. Len(codes) : codes[k] = t

C11_Witness ==
    /\ pc = "scored"
    /\ Len(random_variables) = 4
    /\ Len(clue_indices) = 3
    /\ Len(codes) = 24
    /\ codes[1] = <<0, 1, 2>>
    /\ codes[2] = <<0, 1, 3>>
    /\ codes[24] = <<3, 2, 1>>
    /\ Cardinality({codes[k] : k \in 1 .. 24}) = 24

\* the positions of the support of belief b that hold the index i
PositionsOf(b, i) ==
    {w \in 1 .. Len(b.keyword_indices.a) : b.keyword_indices.a[w] = i}

\* C12: the entries a reduced belief retains are the first k entries of the
\* support of the belief by decreasing log-probability, and each retained
\* index carries the log-probability the belief gave to that index.
C12_RetainedPrefix ==
    pc = "reduced" =>
        \A r \in 1 .. Len(reduced_random_variables) :
            LET b == random_variables[r]
                c == reduced_random_variables[r]
                k == Len(c.keyword_indices.a)
            IN /\ c.keyword_indices.ndim = 1
               /\ \A j \in 1 .. k : PositionsOf(b, c.keyword_indices.a[j]) # {}
               /\ \A i, j \in 1 .. k :
                     i # j => c.keyword_indices.a[i] # c.keyword_indices.a[j]
               /\ \A j \in 1 .. k : \A w \in 1 .. Len(b.keyword_indices.a) :
                     \/ \E i \in 1 .. k : c.keyword_indices.a[i] = b.keyword_indices.a[w]
                     \/ \A v \in PositionsOf(b, c.keyword_indices.a[j]) :
                           ~Less(b.log_probabilities.a[v], b.log_probabilities.a[w])
               /\ c.log_probabilities.ndim = 1
               /\ Len(c.log_probabilities.a) = k
               /\ \A j \in 1 .. k : \A v \in PositionsOf(b, c.keyword_indices.a[j]) :
                     c.log_probabilities.a[j] = b.log_probabilities.a[v]

\* the sum of the k largest probabilities of a row of log-probabilities
MassOfLargest(row, k) ==
    LET o == CHOOSE o \in ArgSorts(row) : TRUE
    IN Sum([j \in 1 .. k |-> Exp(row[o[j] + 1])])

\* the least k for which the k largest probabilities of the row sum to
\* a/Resolution or more (the whole row when no prefix does)
NeededLength(row, a) ==
    LET ks == {k \in 1 .. Len(row) :
                  LET m == MassOfLargest(row, k)
                  IN m.k = "num" /\ m.z = 0 /\ m.n * Resolution >= a * m.d}
    IN IF ks = {} THEN Len(row) ELSE CHOOSE k \in ks : \A j \in ks : k <= j

\* C13: the beliefs that a reduction of a batch returns all have the same
\* number of entries, the greatest over the batch of the number of entries
\* each belief needs to reach the cumulative probability.
C13_WidthIsGreatestNeeded ==
    pc = "reduced" =>
        LET needed == [r \in 1 .. Len(random_variables) |->
                          NeededLength(random_variables[r].log_probabilities.a,
                                       cumulative_probability)]
        IN \A r \in 1 .. Len(reduced_random_variables) :
              /\ reduced_random_variables[r].keyword_indices.ndim = 1
              /\ Len(reduced_random_variables[r].keyword_indices.a) = MaxNat(needed)

\* the heuristic gives LOG_PROB_ZERO for the clue at column c against every
\* entry of belief r that has a probability
AllSentinel(r, c) ==
    \A w \in 1 .. Len(random_variables[r].keyword_indices.a) :
        random_variables[r].log_probabilities.a[w] # NegInf =>
            clue_and_keyword_to_log_probability_func(
                heuristic, clue_indices[c],
                random_variables[r].keyword_indices.a[w]) = LogProbZero

\* the log of the sum of the probabilities of belief r
LogMass(r) ==
    LogOf(Sum([w \in 1 .. Len(random_variables[r].log_probabilities.a) |->
                  Exp(random_variables[r].log_probabilities.a[w])]))

\* C14, as amended: when the heuristic gives the sentinel for every entry of
\* a belief, the entry of the expectation matrix is a finite number, the
\* sentinel plus the log of the sum of the belief's probabilities: exactly
\* the sentinel, -100, for a belief whose probabilities sum to 1.
C14_SentinelPlusLogMass ==
    (pc \in {"scored", "failed"} /\ heuristic # "none") =>
        \A r \in 1 .. Len(random_variables) : \E mass \in {LogMass(r)} :
            \A c \in 1 .. Len(clue_indices) :
                AllSentinel(r, c) =>
                    /\ log_expected_probabilities[r][c].k = "fin"
                    /\ log_expected_probabilities[r][c] = Add(LogProbZero, mass)
                    /\ (mass = NZERO =>
                          /\ log_expected_probabilities[r][c] = LogProbZero
                          /\ Number(log_expected_probabilities[r][c]) = LOG_PROB_ZERO)

C14_Witness ==
    /\ pc = "scored"
    /\ \E r \in 1 .. Len(random_variables) : \E c \in 1 .. Len(clue_indices) :
          /\ AllSentinel(r, c)
          /\ Cardinality({w \in 1 .. Len(random_variables[r].log_probabilities.a) :
                 random_variables[r].log_probabilities.a[w].k = "fin"}) = 2
          /\ LogMass(r) = NZERO
          /\ log_expected_probabilities[r][c] = LogProbZero

\* C14, as stated: the entry is exactly the sentinel for every belief.
C14_ExactlySentinel ==
    (pc \in {"scored", "failed"} /\ heuristic # "none") =>
        \A r \in 1 .. Len(random_variables) : \A c \in 1 .. Len(clue_indices) :
            AllSentinel(r, c) => log_expected_probabilities[r][c] = LogProbZero

============================================================================
